---- MODULE Spec2Model ----
(***************************************************************************)
(* typescript-score-check: the CLI action of index.ts and the scoring      *)
(* helpers of functions/helper.ts (both in src/index.ts).                  *)
(*                                                                         *)
(* A parsed source file is a syntax tree: a sequence of nodes in pre-order,*)
(* each with its kind, the index of its parent (0 is the SourceFile node), *)
(* its NodeFlags, its modifiers and its role in the parent.  Numbers of    *)
(* the program are JavaScript doubles; the model computes them as exact    *)
(* rationals <<n, d>> in lowest terms with d > 0.                          *)
(***************************************************************************)
EXTENDS Integers, Sequences, FiniteSets, TLC

VARIABLES disk, json, pc, files, project, scores, out, arg, ret

vars == <<disk, json, pc, files, project, scores, out, arg, ret>>

(***************************************************************************)
(* Numbers                                                                 *)
(***************************************************************************)
Abs(n) == IF n < 0 THEN -n ELSE n

RECURSIVE GCD(_, _)
GCD(a, b) == IF b = 0 THEN a ELSE GCD(b, a % b)

\* n / d as a number of the program (d # 0)
Q(n, d) ==
    LET s == IF d < 0 THEN -1 ELSE 1
        g == GCD(Abs(n), Abs(d))
    IN  <<(s * n) \div g, (s * d) \div g>>

Num(k) == <<k, 1>>
Zero == Num(0)
One == Num(1)

RAdd(x, y) == Q(x[1] * y[2] + y[1] * x[2], x[2] * y[2])
RSub(x, y) == Q(x[1] * y[2] - y[1] * x[2], x[2] * y[2])
RMul(x, y) == Q(x[1] * y[1], x[2] * y[2])
RDiv(x, y) == Q(x[1] * y[2], x[2] * y[1])
RLess(x, y) == x[1] * y[2] < y[1] * x[2]
RLeq(x, y) == x[1] * y[2] <= y[1] * x[2]
\* Math.max(x, y)
RMax(x, y) == IF RLess(x, y) THEN y ELSE x

(***************************************************************************)
(* Syntax trees (the provider's nodes, as the helpers query them)          *)
(***************************************************************************)
N(k, p) == [kind |-> k, parent |-> p, flags |-> {}, mods |-> {}, role |-> "none"]
\* a VariableDeclarationList with its NodeFlags (Let, Const, Using)
NF(k, p, f) == [kind |-> k, parent |-> p, flags |-> f, mods |-> {}, role |-> "none"]
\* a class member with its modifiers
NM(k, p, m) == [kind |-> k, parent |-> p, flags |-> {}, mods |-> m, role |-> "none"]
\* a type node that is the return-type annotation of its parent
NR(k, p) == [kind |-> k, parent |-> p, flags |-> {}, mods |-> {}, role |-> "returnType"]

\* node.forEachChild / node.getChildren(): the indices of the children of node i
Children(t, i) == {j \in 1..Len(t) : t[j].parent = i}

RECURSIVE IsDescendant(_, _, _)
IsDescendant(t, j, i) ==
    \/ t[j].parent = i
    \/ t[j].parent > 0 /\ IsDescendant(t, t[j].parent, i)

\* node.getDescendantsOfKind(kind), for node i of tree t
getDescendantsOfKind(t, i, kind) ==
    {j \in 1..Len(t) : t[j].kind = kind /\ IsDescendant(t, j, i)}

\* sourceFile.getFunctions(): the function declarations among the file's statements
getFunctions_withMethods(t) ==
    {j \in 1..Len(t) : t[j].kind \in {"FunctionDeclaration", "MethodDeclaration"}}

getFunctions(t) ==
    {j \in 1..Len(t) : t[j].kind = "FunctionDeclaration" /\ t[j].parent = 0}

\* sourceFile.getClasses(): the class declarations among the file's statements
getClasses(t) ==
    {j \in 1..Len(t) : t[j].kind = "ClassDeclaration" /\ t[j].parent = 0}

MemberKinds ==
    {"PropertyDeclaration", "MethodDeclaration", "Constructor", "GetAccessor",
     "SetAccessor", "ClassStaticBlockDeclaration"}

\* cls.getMembers()
getMembers(t, c) == {j \in Children(t, c) : t[j].kind \in MemberKinds}

\* typeof member.getModifiers === "function": static blocks have no modifiers
hasGetModifiers(node) == node.kind # "ClassStaticBlockDeclaration"

\* f.getReturnTypeNode() is defined
hasReturnTypeNode(t, f) == \E j \in Children(t, f) : t[j].role = "returnType"

OperatorTokens ==
    {"AmpersandAmpersandToken", "BarBarToken", "QuestionQuestionToken",
     "PlusToken", "EqualsToken"}

\* expr.getOperatorToken().getKind() of a BinaryExpression
getOperatorKind(t, e) ==
    LET ops == {j \in Children(t, e) : t[j].kind \in OperatorTokens}
    IN  IF ops = {} THEN "none" ELSE t[CHOOSE j \in ops : TRUE].kind

\* the BinaryExpression descendants of node i whose operator token is op
BinaryWithOperator(t, i, op) ==
    {e \in getDescendantsOfKind(t, i, "BinaryExpression") : getOperatorKind(t, e) = op}

\* v.getParent().getKind() === VariableDeclarationList && v.getParent().getFlags() & flag,
\* over sourceFile.getDescendantsOfKind(VariableDeclaration)
DeclarationsFlagged(t, fl) ==
    {v \in getDescendantsOfKind(t, 0, "VariableDeclaration") :
        /\ t[v].parent > 0
        /\ t[t[v].parent].kind = "VariableDeclarationList"
        /\ t[t[v].parent].flags \cap fl # {}}

(***************************************************************************)
(* The ten metric functions                                                *)
(***************************************************************************)
MetricNames ==
    <<"avoidAny", "returnTypes", "accessModifiers", "complexity", "nesting",
      "preferConst", "avoidAssertions", "useReadonly", "avoidVar", "optionalChaining">>

calculateAvoidAny(t) ==
    LET anyCount == Cardinality(getDescendantsOfKind(t, 0, "AnyKeyword"))
        typeRefCount == Cardinality(getDescendantsOfKind(t, 0, "TypeReference"))
        denominator ==
            IF typeRefCount > 0 THEN typeRefCount
            ELSE IF anyCount > 0 THEN anyCount ELSE 1
    IN  RSub(One, Q(anyCount, denominator))

calculateReturnTypes(t) ==
    LET functions == getFunctions(t)
        withReturn == {f \in functions : hasReturnTypeNode(t, f)}
    IN  IF Cardinality(functions) = 0 THEN One
        ELSE Q(Cardinality(withReturn), Cardinality(functions))

\* a mutant: members without a modifier accessor are left out of the count
calculateAccessModifiers_skipStatic(t) ==
    LET classes == getClasses(t)
        all == {m \in 1..Len(t) :
                    hasGetModifiers(t[m]) /\ \E c \in classes : m \in getMembers(t, c)}
        members == Cardinality(all)
        withModifiers == Cardinality({m \in all : Cardinality(t[m].mods) > 0})
    IN  IF Cardinality(classes) = 0 THEN One
        ELSE IF members = 0 THEN One ELSE Q(withModifiers, members)

calculateAccessModifiers(t) ==
    LET classes == getClasses(t)
        all == {m \in 1..Len(t) : \E c \in classes : m \in getMembers(t, c)}
        members == Cardinality(all)
        withModifiers ==
            Cardinality({m \in all : hasGetModifiers(t[m]) /\ Cardinality(t[m].mods) > 0})
    IN  IF Cardinality(classes) = 0 THEN One
        ELSE IF members = 0 THEN One ELSE Q(withModifiers, members)

ComplexityKinds ==
    <<"IfStatement", "SwitchStatement", "ForStatement", "ForInStatement",
      "ForOfStatement", "WhileStatement", "DoStatement", "TryStatement",
      "CatchClause", "ConditionalExpression">>

RECURSIVE CountKinds(_, _, _)
CountKinds(t, f, kinds) ==
    IF kinds = <<>> THEN 0
    ELSE Cardinality(getDescendantsOfKind(t, f, Head(kinds)))
            + CountKinds(t, f, Tail(kinds))

\* a mutant: the bodies of nested functions are not counted
functionComplexity_ownBody(t, f) ==
    LET inner == getDescendantsOfKind(t, f, "FunctionDeclaration")
        own(j) == \A g \in inner : j # g => ~ IsDescendant(t, j, g)
        counted ==
            {j \in 1..Len(t) :
                /\ IsDescendant(t, j, f)
                /\ own(j)
                /\ \/ \E i \in 1..Len(ComplexityKinds) : t[j].kind = ComplexityKinds[i]
                   \/ /\ t[j].kind = "BinaryExpression"
                      /\ getOperatorKind(t, j) \in {"AmpersandAmpersandToken", "BarBarToken"}}
    IN  1 + Cardinality(counted)

\* the body of functions.forEach in calculateComplexity: one function's complexity
functionComplexity(t, f) ==
    1 + CountKinds(t, f, ComplexityKinds)
      + Cardinality(BinaryWithOperator(t, f, "AmpersandAmpersandToken"))
      + Cardinality(BinaryWithOperator(t, f, "BarBarToken"))

RECURSIVE totalComplexity(_, _)
totalComplexity(t, fs) ==
    IF fs = {} THEN 0
    ELSE LET f == CHOOSE x \in fs : TRUE
         IN  functionComplexity(t, f) + totalComplexity(t, fs \ {f})

calculateComplexity(t) ==
    LET functions == getFunctions(t)
        avgComplexity == Q(totalComplexity(t, functions), Cardinality(functions))
    IN  IF Cardinality(functions) = 0 THEN One
        ELSE RMax(Zero, RSub(One, RDiv(RSub(avgComplexity, One), Num(5))))

\* a mutant: exception handling and ternaries deepen the nesting too
NestingKinds_withTry ==
    {"IfStatement", "SwitchStatement", "ForStatement", "ForInStatement",
     "ForOfStatement", "WhileStatement", "DoStatement", "TryStatement",
     "CatchClause", "ConditionalExpression"}

NestingKinds ==
    {"IfStatement", "SwitchStatement", "ForStatement", "ForInStatement",
     "ForOfStatement", "WhileStatement", "DoStatement"}

SetMax(S) == CHOOSE x \in S : \A y \in S : y <= x

RECURSIVE getNesting_everyCall(_, _, _)
getNesting_everyCall(t, node, current) ==
    SetMax({current} \cup
           {getNesting_everyCall(t, child, current + 1) : child \in Children(t, node)})

RECURSIVE getNesting(_, _, _)
getNesting(t, node, current) ==
    SetMax({current} \cup
           {getNesting(t, child,
                       IF t[child].kind \in NestingKinds THEN current + 1 ELSE current) :
               child \in Children(t, node)})

calculateNesting(t) ==
    LET functions == getFunctions(t)
        maxNesting == SetMax({0} \cup {getNesting(t, f, 0) : f \in functions})
    IN  IF Cardinality(functions) = 0 THEN One
        ELSE RMax(Zero, RSub(One, Q(maxNesting, 4)))

\* a mutant: the ratio is taken over every variable declaration
calculatePreferConst_allDecls(t) ==
    LET consts == DeclarationsFlagged(t, {"Const"})
        total == Cardinality(getDescendantsOfKind(t, 0, "VariableDeclaration"))
    IN  IF total = 0 THEN One ELSE Q(Cardinality(consts), total)

calculatePreferConst(t) ==
    LET lets == DeclarationsFlagged(t, {"Let"})
        consts == DeclarationsFlagged(t, {"Const"})
        total == Cardinality(lets) + Cardinality(consts)
    IN  IF total = 0 THEN One ELSE Q(Cardinality(consts), total)

calculateAvoidAssertions(t) ==
    LET assertions ==
            Cardinality(getDescendantsOfKind(t, 0, "TypeAssertionExpression"))
            + Cardinality(getDescendantsOfKind(t, 0, "NonNullExpression"))
        asExpressions == Cardinality(getDescendantsOfKind(t, 0, "AsExpression"))
        callExpressions == Cardinality(getDescendantsOfKind(t, 0, "CallExpression"))
        binaryExpressions == Cardinality(getDescendantsOfKind(t, 0, "BinaryExpression"))
        sum == asExpressions + callExpressions + binaryExpressions
        totalExpressions == IF sum # 0 THEN sum ELSE 1
    IN  RSub(One, Q(assertions, totalExpressions))

calculateUseReadonly(t) ==
    LET properties == getDescendantsOfKind(t, 0, "PropertyDeclaration")
        readonlyCount == Cardinality({p \in properties : "readonly" \in t[p].mods})
    IN  IF Cardinality(properties) = 0 THEN One
        ELSE Q(readonlyCount, Cardinality(properties))

\* a mutant: only `let` lists are accepted as block-scoped
calculateAvoidVar_letOnly(t) ==
    IF \E v \in getDescendantsOfKind(t, 0, "VariableDeclaration") :
            /\ t[v].parent > 0
            /\ t[t[v].parent].kind = "VariableDeclarationList"
            /\ t[t[v].parent].flags \cap {"Let"} = {}
    THEN Zero ELSE One

calculateAvoidVar(t) ==
    IF \E v \in getDescendantsOfKind(t, 0, "VariableDeclaration") :
            /\ t[v].parent > 0
            /\ t[t[v].parent].kind = "VariableDeclarationList"
            /\ t[t[v].parent].flags \cap {"Let", "Const"} = {}
    THEN Zero ELSE One

calculateOptionalChaining(t) ==
    LET manualNullChecks == Cardinality(BinaryWithOperator(t, 0, "AmpersandAmpersandToken"))
        modernOperators ==
            Cardinality(getDescendantsOfKind(t, 0, "QuestionDotToken"))
            + Cardinality(getDescendantsOfKind(t, 0, "QuestionQuestionToken"))
        sum == manualNullChecks + modernOperators
        totalNullChecks == IF sum # 0 THEN sum ELSE 1
    IN  Q(modernOperators, totalNullChecks)

\* the metrics object literal of the per-file callback
Metrics(t) ==
    [avoidAny |-> calculateAvoidAny(t),
     returnTypes |-> calculateReturnTypes(t),
     accessModifiers |-> calculateAccessModifiers(t),
     complexity |-> calculateComplexity(t),
     nesting |-> calculateNesting(t),
     preferConst |-> calculatePreferConst(t),
     avoidAssertions |-> calculateAvoidAssertions(t),
     useReadonly |-> calculateUseReadonly(t),
     avoidVar |-> calculateAvoidVar(t),
     optionalChaining |-> calculateOptionalChaining(t)]

(***************************************************************************)
(* Score and suggestions                                                   *)
(***************************************************************************)
weights ==
    [avoidAny |-> 10, returnTypes |-> 10, accessModifiers |-> 10, complexity |-> 10,
     nesting |-> 10, preferConst |-> 10, avoidAssertions |-> 10, useReadonly |-> 10,
     avoidVar |-> 10, optionalChaining |-> 10]

\* the reduce over Object.entries(metrics): entries without a weight add nothing
RECURSIVE weightedSum(_, _)
weightedSum(metrics, keys) ==
    IF keys = {} THEN Zero
    ELSE LET key == CHOOSE k \in keys : TRUE
             rest == weightedSum(metrics, keys \ {key})
         IN  IF key \in DOMAIN weights
             THEN RAdd(rest, RMul(Num(weights[key]), metrics[key]))
             ELSE rest

\* a mutant: an entry without a weight is summed with the common weight
RECURSIVE weightedSum_unfiltered(_, _)
weightedSum_unfiltered(metrics, keys) ==
    IF keys = {} THEN Zero
    ELSE LET key == CHOOSE k \in keys : TRUE
             rest == weightedSum_unfiltered(metrics, keys \ {key})
         IN  RAdd(rest, RMul(Num(10), metrics[key]))

\* the reduce over Object.keys(weights)
RECURSIVE totalWeight(_)
totalWeight(keys) ==
    IF keys = {} THEN 0
    ELSE LET k == CHOOSE x \in keys : TRUE
         IN  weights[k] + totalWeight(keys \ {k})

calculateScore_unfiltered(metrics) ==
    LET ws == weightedSum_unfiltered(metrics, DOMAIN metrics)
        tw == totalWeight(DOMAIN weights)
    IN  IF tw > 0 THEN RMul(RDiv(ws, Num(tw)), Num(100)) ELSE Zero

calculateScore(metrics) ==
    LET ws == weightedSum(metrics, DOMAIN metrics)
        tw == totalWeight(DOMAIN weights)
    IN  IF tw > 0 THEN RMul(RDiv(ws, Num(tw)), Num(100)) ELSE Zero

\* the pushed texts (their backquotes written as quotes)
Suggestion ==
    [avoidAny |-> "Replace 'any' with specific types or 'unknown'.",
     returnTypes |-> "Add explicit return types to functions.",
     accessModifiers |-> "Add access modifiers (public/private) to class members.",
     complexity |-> "Simplify functions with high complexity by extracting logic.",
     nesting |-> "Reduce nesting with early returns or function extraction.",
     preferConst |-> "Use 'const' instead of 'let' for non-reassigned variables.",
     avoidAssertions |-> "Replace type assertions with type guards.",
     useReadonly |-> "Mark immutable properties as 'readonly'.",
     avoidVar |-> "Replace 'var' with 'let' or 'const'.",
     optionalChaining |->
        "Use optional chaining ('?.') and nullish coalescing ('??') for null checks."]

\* a mutant: the test is <= 1
pushIfBelowOne_orEqual(metrics, name) ==
    IF name \in DOMAIN metrics /\ RLeq(metrics[name], One)
    THEN <<Suggestion[name]>> ELSE <<>>

\* if (metrics.<name> < 1) suggestions.push(...): a missing key compares false
pushIfBelowOne(metrics, name) ==
    IF name \in DOMAIN metrics /\ RLess(metrics[name], One)
    THEN <<Suggestion[name]>> ELSE <<>>

\* a mutant: the last test was dropped
generateSuggestions_short(metrics) ==
    pushIfBelowOne(metrics, "avoidAny") \o pushIfBelowOne(metrics, "returnTypes")
    \o pushIfBelowOne(metrics, "accessModifiers") \o pushIfBelowOne(metrics, "complexity")
    \o pushIfBelowOne(metrics, "nesting") \o pushIfBelowOne(metrics, "preferConst")
    \o pushIfBelowOne(metrics, "avoidAssertions") \o pushIfBelowOne(metrics, "useReadonly")
    \o pushIfBelowOne(metrics, "avoidVar")

generateSuggestions(metrics) ==
    pushIfBelowOne(metrics, "avoidAny") \o pushIfBelowOne(metrics, "returnTypes")
    \o pushIfBelowOne(metrics, "accessModifiers") \o pushIfBelowOne(metrics, "complexity")
    \o pushIfBelowOne(metrics, "nesting") \o pushIfBelowOne(metrics, "preferConst")
    \o pushIfBelowOne(metrics, "avoidAssertions") \o pushIfBelowOne(metrics, "useReadonly")
    \o pushIfBelowOne(metrics, "avoidVar") \o pushIfBelowOne(metrics, "optionalChaining")

\* the callback of files.map: the ScoreResult of one file, parsed to tree t
ScoreResult(file, t) ==
    LET metrics == Metrics(t)
    IN  [file |-> file,
         score |-> calculateScore(metrics),
         metrics |-> metrics,
         suggestions |-> generateSuggestions(metrics)]

(***************************************************************************)
(* Reporter                                                                *)
(***************************************************************************)
\* x.toFixed(2), as the integer number of hundredths nearest to x (ties up)
toFixed2(x) == (2 * 100 * x[1] + x[2]) \div (2 * x[2])

\* one element of scores.map(...) in formatHumanReadable
formatOne(s) ==
    [file |-> s.file,
     score |-> toFixed2(s.score),
     metrics |-> [i \in 1..Len(MetricNames) |->
                    <<MetricNames[i], toFixed2(RMul(s.metrics[MetricNames[i]], Num(100)))>>],
     tail |-> IF Len(s.suggestions) > 0
              THEN <<"SUGGESTIONS:">> \o s.suggestions
              ELSE <<"No suggestions, great job!">>]

formatHumanReadable(ss) == [i \in 1..Len(ss) |-> formatOne(ss[i])]

(***************************************************************************)
(* File discovery                                                          *)
(***************************************************************************)
\* a directory entry: a file with its text (already as the tree the provider
\* parses it to) or a directory with its listing, in readdirSync order
FileEntry(name, t) == [name |-> name, isDir |-> FALSE, entries |-> <<>>, tree |-> t]
DirEntry(name, es) == [name |-> name, isDir |-> TRUE, entries |-> es, tree |-> <<>>]

\* extname(fullPath): a name is <<base, extension>>
extname(fullPath) == fullPath[Len(fullPath)][2]

RECURSIVE getTsFiles(_, _)
getTsFiles(dir, listing) ==
    IF listing = <<>> THEN <<>>
    ELSE LET e == Head(listing)
             fullPath == Append(dir, e.name)
             found ==
                IF e.isDir THEN getTsFiles(fullPath, e.entries)
                ELSE IF extname(fullPath) = ".ts" \/ extname(fullPath) = ".tsx"
                     THEN <<fullPath>> ELSE <<>>
         IN  found \o getTsFiles(dir, Tail(listing))

\* project.addSourceFileAtPath(file): the tree of the file at a path below listing
RECURSIVE addSourceFileAtPath(_, _)
addSourceFileAtPath(listing, path) ==
    LET e == CHOOSE x \in {listing[i] : i \in 1..Len(listing)} : x.name = Head(path)
    IN  IF Len(path) = 1 THEN e.tree ELSE addSourceFileAtPath(e.entries, Tail(path))

(***************************************************************************)
(* Input: source files, as the trees the provider parses them to.          *)
(* A file is a sequence of statements; each form below is the tree of the  *)
(* statement in its comment (identifiers and literals, which no helper     *)
(* asks for, are left out).  Parents are relative to the statement.        *)
(***************************************************************************)
\* type A = B;
StmtTypeAlias == <<N("TypeAliasDeclaration", 0), N("TypeReference", 1)>>

\* let a: any;
StmtLetAny ==
    <<N("VariableStatement", 0), NF("VariableDeclarationList", 1, {"Let"}),
      N("VariableDeclaration", 2), N("AnyKeyword", 3)>>

\* var n = a!.b!.c!.d!;
StmtVarNonNull ==
    <<N("VariableStatement", 0), NF("VariableDeclarationList", 1, {}),
      N("VariableDeclaration", 2), N("NonNullExpression", 3),
      N("PropertyAccessExpression", 4), N("NonNullExpression", 5),
      N("PropertyAccessExpression", 6), N("NonNullExpression", 7),
      N("PropertyAccessExpression", 8), N("NonNullExpression", 9)>>

\* const c = <any>x;
StmtConstAssertion ==
    <<N("VariableStatement", 0), NF("VariableDeclarationList", 1, {"Const"}),
      N("VariableDeclaration", 2), N("TypeAssertionExpression", 3), N("AnyKeyword", 4)>>

\* a && a.b;
StmtManualCheck ==
    <<N("ExpressionStatement", 0), N("BinaryExpression", 1),
      N("AmpersandAmpersandToken", 2), N("PropertyAccessExpression", 2)>>

\* a?.b ?? c;
StmtModernCheck ==
    <<N("ExpressionStatement", 0), N("BinaryExpression", 1),
      N("PropertyAccessExpression", 2), N("QuestionDotToken", 3),
      N("QuestionQuestionToken", 2)>>

\* f(x as T);
StmtCallAs ==
    <<N("ExpressionStatement", 0), N("CallExpression", 1), N("AsExpression", 2),
      N("TypeReference", 3)>>

\* function e() {}
StmtFunctionPlain == <<N("FunctionDeclaration", 0), N("Block", 1)>>

\* function f(a: any): any { if (a) { return a; } }
StmtFunctionIf ==
    <<N("FunctionDeclaration", 0), N("Parameter", 1), N("AnyKeyword", 2),
      NR("AnyKeyword", 1), N("Block", 1), N("IfStatement", 5), N("Block", 6),
      N("ReturnStatement", 7)>>

\* function g(): T { if (a && b) { for (;;) { while (c) { do { switch (d) {} } while (e); } } } }
StmtFunctionDeep ==
    <<N("FunctionDeclaration", 0), NR("TypeReference", 1), N("Block", 1),
      N("IfStatement", 3), N("BinaryExpression", 4), N("AmpersandAmpersandToken", 5),
      N("Block", 4), N("ForStatement", 7), N("Block", 8), N("WhileStatement", 9),
      N("Block", 10), N("DoStatement", 11), N("Block", 12), N("SwitchStatement", 13)>>

\* function h() { try { x = a || b ? c : d; } catch (e) {} }
StmtFunctionTry ==
    <<N("FunctionDeclaration", 0), N("Block", 1), N("TryStatement", 2), N("Block", 3),
      N("ExpressionStatement", 4), N("BinaryExpression", 5), N("EqualsToken", 6),
      N("ConditionalExpression", 6), N("BinaryExpression", 8), N("BarBarToken", 9),
      N("CatchClause", 3), N("VariableDeclaration", 11), N("Block", 11)>>

\* class C { x; static {} }
StmtClassPlain ==
    <<N("ClassDeclaration", 0), NM("PropertyDeclaration", 1, {}),
      N("ClassStaticBlockDeclaration", 1), N("Block", 3)>>

\* class D { private readonly y; public m() { if (a) { if (b) {} } } }
StmtClassMethod ==
    <<N("ClassDeclaration", 0), NM("PropertyDeclaration", 1, {"private", "readonly"}),
      NM("MethodDeclaration", 1, {"public"}), N("Block", 3), N("IfStatement", 4),
      N("Block", 5), N("IfStatement", 6)>>

\* if (a) { while (b) {} }
StmtTopLevelIf ==
    <<N("IfStatement", 0), N("Block", 1), N("WhileStatement", 2)>>

\* function o() { if (a) { function i() { while (b) { for (;;) { do {} while (c); } } } } }
StmtFunctionNested ==
    <<N("FunctionDeclaration", 0), N("Block", 1), N("IfStatement", 2), N("Block", 3),
      N("FunctionDeclaration", 4), N("Block", 5), N("WhileStatement", 6), N("Block", 7),
      N("ForStatement", 8), N("Block", 9), N("DoStatement", 10), N("Block", 11)>>

\* function p() { try { if (a) { x = b ? c : d; } } catch (e) { while (f) { for (;;) {} } } }
StmtFunctionPaths ==
    <<N("FunctionDeclaration", 0), N("Block", 1), N("TryStatement", 2), N("Block", 3),
      N("IfStatement", 4), N("Block", 5), N("ExpressionStatement", 6),
      N("BinaryExpression", 7), N("EqualsToken", 8), N("ConditionalExpression", 8),
      N("CatchClause", 3), N("VariableDeclaration", 11), N("Block", 11),
      N("WhileStatement", 13), N("Block", 14), N("ForStatement", 15), N("Block", 16)>>

\* class F {}
StmtClassEmpty == <<N("ClassDeclaration", 0)>>

Statements ==
    <<StmtTypeAlias, StmtLetAny, StmtVarNonNull, StmtConstAssertion, StmtManualCheck,
      StmtModernCheck, StmtCallAs, StmtFunctionPlain, StmtFunctionIf, StmtFunctionDeep,
      StmtFunctionTry, StmtClassPlain, StmtClassMethod, StmtTopLevelIf,
      StmtFunctionNested, StmtFunctionPaths, StmtClassEmpty>>

\* statement s appended to the file t
AppendStatement(t, s) ==
    t \o [i \in 1..Len(s) |->
            [s[i] EXCEPT !.parent = IF s[i].parent = 0 THEN 0 ELSE s[i].parent + Len(t)]]

\* the file whose statements are the forms ix[1], ix[2], ...
RECURSIVE FileOf(_)
FileOf(ix) ==
    IF ix = <<>> THEN <<>>
    ELSE AppendStatement(FileOf(SubSeq(ix, 1, Len(ix) - 1)), Statements[ix[Len(ix)]])

\* the largest number of statements of an input file
MaxStmts == 3

\* no helper depends on the order of a file's statements: the forms of an input
\* file come in the order of the catalogue
StatementLists ==
    UNION {{ix \in [1..n -> 1..Len(Statements)] :
                \A i \in 1..n - 1 : ix[i] <= ix[i + 1]} : n \in 0..MaxStmts}

SourceFiles == {FileOf(ix) : ix \in StatementLists}

EmptyFile == <<>>

\* the repository's example file:
\*   function greet(name: string): string | null {
\*     const greeting: string = `Hello, ${name}!`;
\*     return greeting;
\*   }
\*   const result: string = greet("World") ?? "No greeting available";
\*   console.log(result);
ExampleFile ==
    <<N("FunctionDeclaration", 0), N("Parameter", 1), N("StringKeyword", 2),
      NR("UnionType", 1), N("StringKeyword", 4), N("LiteralType", 4), N("Block", 1),
      N("VariableStatement", 7), NF("VariableDeclarationList", 8, {"Const"}),
      N("VariableDeclaration", 9), N("StringKeyword", 10), N("TemplateExpression", 10),
      N("ReturnStatement", 7),
      N("VariableStatement", 0), NF("VariableDeclarationList", 14, {"Const"}),
      N("VariableDeclaration", 15), N("StringKeyword", 16), N("BinaryExpression", 16),
      N("CallExpression", 18), N("QuestionQuestionToken", 18),
      N("ExpressionStatement", 0), N("CallExpression", 21),
      N("PropertyAccessExpression", 22)>>

\* the files of the multi-file runs
RunFiles == {EmptyFile, ExampleFile, FileOf(<<9>>), FileOf(<<3, 13>>)}

\* the largest number of directory entries on the disk
MaxDiskEntries == 3

\* the number of entries of a listing, subdirectories included
RECURSIVE DiskSize(_)
DiskSize(l) ==
    IF l = <<>> THEN 0
    ELSE 1 + DiskSize(Head(l).entries) + DiskSize(Tail(l))

\* the entries a listing can have at position i, with at most k entries below it
RECURSIVE Listings(_)
EntriesAt(i, k) ==
    {FileEntry(<<i, x>>, t) : x \in {".ts", ".tsx"}, t \in RunFiles}
    \cup {FileEntry(<<i, ".js">>, EmptyFile)}
    \cup {DirEntry(<<i, "">>, es) : es \in Listings(k)}

\* the listings with at most k entries in all, subdirectories included
Listings(k) ==
    IF k <= 0 THEN {<<>>}
    ELSE Listings(k - 1) \cup
         UNION {{Append(l, e) : e \in EntriesAt(Len(l) + 1, k - 1 - DiskSize(l))} :
                    l \in Listings(k - 1)}

(***************************************************************************)
(* The run: program.action((path, options) => ...)                         *)
(***************************************************************************)
NoCall == [fn |-> "none", value |-> <<>>]

\* a directory of source files, and the --json option
Init ==
    /\ disk \in Listings(MaxDiskEntries)
    /\ json \in BOOLEAN
    /\ pc = "start"
    /\ files = <<>>
    /\ project = {}
    /\ scores = <<>>
    /\ out = <<>>
    /\ arg = <<>>
    /\ ret = NoCall

\* a directory holding one source file
InitFile ==
    /\ disk \in {<<FileEntry(<<1, ".ts">>, t)>> : t \in SourceFiles}
    /\ json \in BOOLEAN
    /\ pc = "start"
    /\ files = <<>>
    /\ project = {}
    /\ scores = <<>>
    /\ out = <<>>
    /\ arg = <<>>
    /\ ret = NoCall

\* const files = getTsFiles(resolve(path))
Discover ==
    /\ pc = "start"
    /\ files' = getTsFiles(<<>>, disk)
    /\ pc' = "map"
    /\ UNCHANGED <<disk, json, project, scores, out, arg, ret>>

\* a mutant: the results are collected newest first
MapNext_unshift(file) ==
    /\ project' = project \cup {file}
    /\ scores' = <<ScoreResult(file, addSourceFileAtPath(disk, file))>> \o scores

\* one call of the callback of files.map, for the next file
MapNext(file) ==
    /\ project' = project \cup {file}
    /\ scores' = Append(scores, ScoreResult(file, addSourceFileAtPath(disk, file)))

AnalyzeFile ==
    /\ pc = "map"
    /\ Len(scores) < Len(files)
    /\ MapNext(files[Len(scores) + 1])
    /\ UNCHANGED <<disk, json, pc, files, out, arg, ret>>

\* console.log(options.json ? JSON.stringify(scores, null, 2) : formatHumanReadable(scores))
Report ==
    /\ pc = "map"
    /\ Len(scores) = Len(files)
    /\ out' = IF json THEN <<"json", scores>> ELSE <<"text", formatHumanReadable(scores)>>
    /\ pc' = "done"
    /\ UNCHANGED <<disk, json, files, project, scores, arg, ret>>

Next == Discover \/ AnalyzeFile \/ Report

Spec == Init /\ [][Next]_vars

SpecFile == InitFile /\ [][Next]_vars

(***************************************************************************)
(* The exported helpers calculateScore and generateSuggestions, called on  *)
(* a MetricSet of the caller                                               *)
(***************************************************************************)
\* ratios below 1 are multiples of 1 / MaxDen, from -1 on
MaxDen == 2

LowValues == {Q(k, MaxDen) : k \in -MaxDen..MaxDen - 1}

NameSet == {MetricNames[i] : i \in 1..Len(MetricNames)}

\* a key of a MetricSet that has no weight
ExtraNames == {"lineCount"}

\* the MetricSets with all ten keys: some metrics at a ratio below 1, the rest at 1
MetricSets ==
    {[n \in NameSet |-> IF n \in below THEN low ELSE One] :
        below \in SUBSET NameSet, low \in LowValues}

InitMetrics ==
    /\ arg \in MetricSets
    /\ ret = NoCall
    /\ disk = <<>>
    /\ json = FALSE
    /\ pc = "idle"
    /\ files = <<>>
    /\ project = {}
    /\ scores = <<>>
    /\ out = <<>>

CallScore ==
    /\ ret' = [fn |-> "calculateScore", value |-> calculateScore(arg)]
    /\ UNCHANGED <<disk, json, pc, files, project, scores, out, arg>>

CallSuggestions ==
    /\ ret' = [fn |-> "generateSuggestions", value |-> generateSuggestions(arg)]
    /\ UNCHANGED <<disk, json, pc, files, project, scores, out, arg>>

\* the caller adds a key without a weight to its MetricSet
PutKey ==
    /\ \E k \in ExtraNames \ DOMAIN arg, v \in LowValues \cup {One} :
            arg' = [n \in DOMAIN arg \cup {k} |-> IF n = k THEN v ELSE arg[n]]
    /\ UNCHANGED <<disk, json, pc, files, project, scores, out, ret>>

\* the caller deletes a key without a weight from its MetricSet
DeleteKey ==
    /\ \E k \in ExtraNames \cap DOMAIN arg :
            arg' = [n \in DOMAIN arg \ {k} |-> arg[n]]
    /\ UNCHANGED <<disk, json, pc, files, project, scores, out, ret>>

NextMetrics == CallScore \/ CallSuggestions \/ PutKey \/ DeleteKey

SpecMetrics == InitMetrics /\ [][NextMetrics]_vars

(***************************************************************************)
(* Properties                                                              *)
(***************************************************************************)
\* the tree of the i-th discovered file
TreeAt(i) == addSourceFileAtPath(disk, files[i])

InUnit(x) == RLeq(Zero, x) /\ RLeq(x, One)

KindCount(t, kind) == Cardinality({j \in 1..Len(t) : t[j].kind = kind})

\* C1: each of the ten metric functions returns a value within [0,1], for
\* every parsed file.
C1_MetricsWithinUnit ==
    \A i \in 1..Len(scores) : \A n \in NameSet : InUnit(scores[i].metrics[n])

\* C2: the aggregate score calculateScore returns for the MetricSet of an
\* analyzed file is within [0,100].
C2_ScoreWithinPercent ==
    \A i \in 1..Len(scores) :
        RLeq(Zero, scores[i].score) /\ RLeq(scores[i].score, Num(100))

\* the sums of C3, taken over the names of the weight table alone
RECURSIVE TableSum(_, _)
TableSum(m, names) ==
    IF names = <<>> THEN Zero
    ELSE RAdd(RMul(Num(weights[Head(names)]), m[Head(names)]), TableSum(m, Tail(names)))

RECURSIVE TableWeight(_)
TableWeight(names) ==
    IF names = <<>> THEN 0 ELSE weights[Head(names)] + TableWeight(Tail(names))

\* C3: calculateScore returns 100 times the weight-weighted mean of the ratios
\* of the weight table's names; a key without a weight changes neither sum, so
\* the score returned stays the score of the MetricSet when such a key is
\* added to it or removed from it.
C3_ScoreIgnoresUnweighted ==
    ret.fn = "calculateScore" =>
        ret.value = RMul(RDiv(TableSum(arg, MetricNames), Num(TableWeight(MetricNames))),
                         Num(100))

\* C3 witness: a score was returned, the MetricSet holds a key without a
\* weight whose value is not zero, and some weighted ratio is below 1.
C3_Witness ==
    /\ ret.fn = "calculateScore"
    /\ \E k \in DOMAIN arg \ DOMAIN weights : arg[k] # Zero
    /\ \E n \in NameSet : RLess(arg[n], One)

\* C4: for an empty file every one of the ten metrics is 1, the score is 100
\* and the suggestion list is empty.
C4_EmptyFilePerfect ==
    \A i \in 1..Len(scores) :
        TreeAt(i) = EmptyFile =>
            /\ \A n \in NameSet : scores[i].metrics[n] = One
            /\ scores[i].score = Num(100)
            /\ scores[i].suggestions = <<>>

BelowOne(n) == RLess(arg[n], One)

\* C5: generateSuggestions returns one text per metric strictly below 1, none
\* for a metric at 1, in the canonical order of the metrics; the length of the
\* list is the number of metrics below 1 and the list is empty exactly when
\* every metric is 1.
C5_SuggestionsPerMetricBelowOne ==
    ret.fn = "generateSuggestions" =>
        LET below == SelectSeq(MetricNames, BelowOne)
        IN  /\ ret.value = [i \in 1..Len(below) |-> Suggestion[below[i]]]
            /\ Len(ret.value) = Cardinality({n \in NameSet : RLess(arg[n], One)})
            /\ (ret.value = <<>>) <=> (\A n \in NameSet : arg[n] = One)

\* C5 witness: suggestions were returned for a MetricSet with the last metric
\* and an earlier one below 1 and another metric at exactly 1.
C5_Witness ==
    /\ ret.fn = "generateSuggestions"
    /\ RLess(arg["optionalChaining"], One)
    /\ RLess(arg["returnTypes"], One)
    /\ arg["avoidAny"] = One
    /\ Len(ret.value) = 2

\* a file without a function declaration among its statements
ZeroFunctions(t) ==
    ~ \E j \in 1..Len(t) : t[j].kind = "FunctionDeclaration" /\ t[j].parent = 0

\* C6: for a file with zero functions, returnTypes, complexity and nesting
\* are exactly 1, whatever else the file contains.
C6_ZeroFunctionsDefault ==
    \A i \in 1..Len(scores) :
        ZeroFunctions(TreeAt(i)) =>
            /\ scores[i].metrics.returnTypes = One
            /\ scores[i].metrics.complexity = One
            /\ scores[i].metrics.nesting = One

\* C6 witness: an analyzed file without functions, with a branching statement
\* at top level and nested ones inside a class method.
C6_Witness ==
    /\ Len(scores) = 1
    /\ ZeroFunctions(TreeAt(1))
    /\ \E j \in 1..Len(TreeAt(1)) :
            TreeAt(1)[j].kind = "IfStatement" /\ TreeAt(1)[j].parent = 0
    /\ \E j \in 1..Len(TreeAt(1)) : TreeAt(1)[j].kind = "MethodDeclaration"
    /\ KindCount(TreeAt(1), "IfStatement") >= 3

\* a declaration in a declaration list that is neither const nor let
LegacyDeclaration(t) ==
    \E l \in 1..Len(t) :
        /\ t[l].kind = "VariableDeclarationList"
        /\ "Let" \notin t[l].flags
        /\ "Const" \notin t[l].flags
        /\ \E v \in 1..Len(t) : t[v].kind = "VariableDeclaration" /\ t[v].parent = l

\* C7: calculateAvoidVar is 0 when some variable declaration sits in a list
\* that is neither const nor let, whatever other declarations there are, and
\* 1 otherwise.
C7_AvoidVarBinary ==
    \A i \in 1..Len(scores) :
        scores[i].metrics.avoidVar = IF LegacyDeclaration(TreeAt(i)) THEN Zero ELSE One

\* C7 witness: an analyzed file with a var declaration beside a let and a
\* const declaration.
C7_Witness ==
    /\ Len(scores) = 1
    /\ LegacyDeclaration(TreeAt(1))
    /\ \E l \in 1..Len(TreeAt(1)) : TreeAt(1)[l].flags = {"Let"}
    /\ \E l \in 1..Len(TreeAt(1)) : TreeAt(1)[l].flags = {"Const"}
    /\ scores[1].metrics.avoidVar = Zero

\* C8: for the file `function f(a: any): any { if (a) { return a; } }`
\* avoidAny < 1, returnTypes = 1, complexity = 0.8 and nesting = 0.75.
C8_ScenarioFunctionIf ==
    \A i \in 1..Len(scores) :
        TreeAt(i) = StmtFunctionIf =>
            /\ RLess(scores[i].metrics.avoidAny, One)
            /\ scores[i].metrics.returnTypes = One
            /\ scores[i].metrics.complexity = Q(8, 10)
            /\ scores[i].metrics.nesting = Q(75, 100)

\* C8 witness: that file was analyzed.
C8_Witness ==
    /\ Len(scores) = 1
    /\ TreeAt(1) = StmtFunctionIf
    /\ KindCount(TreeAt(1), "AnyKeyword") = 2
    /\ KindCount(TreeAt(1), "TypeReference") = 0

\* C10: the run produces one ScoreResult per discovered file, the i-th result
\* is the i-th discovered file's, and it is the result of analyzing that file
\* alone, whatever files were analyzed before it.
C10_ResultsInDiscoveryOrder ==
    /\ Len(scores) <= Len(files)
    /\ pc = "done" => Len(scores) = Len(files)
    /\ \A i \in 1..Len(scores) :
            /\ scores[i].file = files[i]
            /\ scores[i] = ScoreResult(files[i], TreeAt(i))

\* C10 witness: a finished run over two files of different content, the
\* second of them in a subdirectory.
C10_Witness ==
    /\ pc = "done"
    /\ Len(files) = 2
    /\ Len(files[1]) = 1
    /\ Len(files[2]) = 2
    /\ TreeAt(1) # TreeAt(2)
    /\ scores[1].score # scores[2].score

\* the `?.` and `??` tokens of a file
ModernCount(t) ==
    KindCount(t, "QuestionDotToken") + KindCount(t, "QuestionQuestionToken")

\* the binary expressions of a file whose operator is `&&`
ManualCount(t) ==
    Cardinality({e \in 1..Len(t) :
        /\ t[e].kind = "BinaryExpression"
        /\ \E o \in 1..Len(t) : t[o].parent = e /\ t[o].kind = "AmpersandAmpersandToken"})

\* C11: calculateOptionalChaining returns modern / (modern + manual), and 1
\* when the file has neither a modern operator nor a manual check.
C11_OptionalChainingRatio ==
    \A i \in 1..Len(scores) :
        LET modern == ModernCount(TreeAt(i))
            manual == ManualCount(TreeAt(i))
        IN  scores[i].metrics.optionalChaining =
                IF modern + manual = 0 THEN One ELSE Q(modern, modern + manual)

\* the nodes strictly below node f
Below(t, f) == {j \in 1..Len(t) : IsDescendant(t, j, f)}

\* the function declarations among the statements of a file
TopFunctions(t) ==
    {f \in 1..Len(t) : t[f].kind = "FunctionDeclaration" /\ t[f].parent = 0}

\* a node that adds 1 to the complexity of the functions around it
Branching(t, j) ==
    \/ t[j].kind \in {"IfStatement", "SwitchStatement", "ForStatement", "ForInStatement",
                      "ForOfStatement", "WhileStatement", "DoStatement", "TryStatement",
                      "CatchClause", "ConditionalExpression"}
    \/ /\ t[j].kind = "BinaryExpression"
       /\ \E o \in 1..Len(t) :
            t[o].parent = j /\ t[o].kind \in {"AmpersandAmpersandToken", "BarBarToken"}

\* the sum of the functions' complexities: 1 for each function and 1 for each
\* branching node below a function
ComplexitySum(t) ==
    Cardinality(TopFunctions(t))
    + Cardinality({p \in TopFunctions(t) \X (1..Len(t)) :
                        p[2] \in Below(t, p[1]) /\ Branching(t, p[2])})

\* C12: calculateComplexity averages 1 + (branching nodes among all the
\* descendants of the function, nested function bodies included) over the
\* file's functions to c and returns max(0, 1 - (c - 1)/5): 1 at c = 1, 0 at
\* c = 6 and above, linear in between.
C12_ComplexityLinearDecay ==
    \A i \in 1..Len(scores) :
        LET t == TreeAt(i)
            n == Cardinality(TopFunctions(t))
            total == ComplexitySum(t)
        IN  n > 0 =>
                /\ scores[i].metrics.complexity =
                        IF total >= 6 * n THEN Zero ELSE Q(6 * n - total, 5 * n)
                /\ total = n => scores[i].metrics.complexity = One

\* C12 witness: an analyzed file with two functions, one of them holding the
\* loops of a nested function, and a complexity strictly between 0 and 1.
C12_Witness ==
    /\ Len(scores) = 1
    /\ Cardinality(TopFunctions(TreeAt(1))) = 2
    /\ \E f \in TopFunctions(TreeAt(1)) : \E g \in Below(TreeAt(1), f) :
            /\ TreeAt(1)[g].kind = "FunctionDeclaration"
            /\ \E j \in Below(TreeAt(1), g) : Branching(TreeAt(1), j)
    /\ RLess(Zero, scores[1].metrics.complexity)
    /\ RLess(scores[1].metrics.complexity, One)

\* node j or a node above it, up to (not including) node f
RECURSIVE PathTo(_, _, _)
PathTo(t, j, f) == IF j = f \/ j = 0 THEN {} ELSE {j} \cup PathTo(t, t[j].parent, f)

\* the if/switch/loop nodes on the path from function f down to node j
DepthAt(t, f, j) ==
    Cardinality({a \in PathTo(t, j, f) :
        t[a].kind \in {"IfStatement", "SwitchStatement", "ForStatement", "ForInStatement",
                       "ForOfStatement", "WhileStatement", "DoStatement"}})

\* the deepest nesting below the functions of a file
MaxDepth(t) ==
    LET ds == {0} \cup
              {DepthAt(t, p[1], p[2]) :
                    p \in {q \in TopFunctions(t) \X (1..Len(t)) : q[2] \in Below(t, q[1])}}
    IN  CHOOSE d \in ds : \A e \in ds : e <= d

\* C13: calculateNesting takes the largest number d of if/switch/loop nodes on
\* a path below a function of the file (try/catch, ternaries and other nodes
\* do not count) and returns max(0, 1 - d/4): 1 at depth 0, 0 at depth 4 and
\* deeper.
C13_NestingDeepestPath ==
    \A i \in 1..Len(scores) :
        LET t == TreeAt(i)
            d == MaxDepth(t)
        IN  TopFunctions(t) # {} =>
                scores[i].metrics.nesting = IF d >= 4 THEN Zero ELSE Q(4 - d, 4)

\* C13 witness: an analyzed function whose paths differ in depth, the deepest
\* (two loops) under a catch clause of a try statement.
C13_Witness ==
    /\ Len(scores) = 1
    /\ Cardinality(TopFunctions(TreeAt(1))) = 1
    /\ KindCount(TreeAt(1), "TryStatement") = 1
    /\ KindCount(TreeAt(1), "CatchClause") = 1
    /\ KindCount(TreeAt(1), "ConditionalExpression") = 1
    /\ MaxDepth(TreeAt(1)) = 2
    /\ scores[1].metrics.nesting = Q(1, 2)

\* the members of the classes among the statements of a file
ClassMembers(t) ==
    {m \in 1..Len(t) :
        /\ t[m].kind \in {"PropertyDeclaration", "MethodDeclaration", "Constructor",
                          "GetAccessor", "SetAccessor", "ClassStaticBlockDeclaration"}
        /\ t[m].parent > 0
        /\ t[t[m].parent].kind = "ClassDeclaration"
        /\ t[t[m].parent].parent = 0}

\* the members carrying at least one modifier; a static block has no modifier accessor
ModifiedMembers(t) ==
    {m \in ClassMembers(t) : t[m].kind # "ClassStaticBlockDeclaration" /\ t[m].mods # {}}

\* C14: calculateAccessModifiers returns (members carrying a modifier) / (all
\* members of all classes), a member without a modifier accessor counting in
\* the denominator only, and 1 when there is no class or no member at all.
C14_AccessModifiersRatio ==
    \A i \in 1..Len(scores) :
        LET members == Cardinality(ClassMembers(TreeAt(i)))
            withModifiers == Cardinality(ModifiedMembers(TreeAt(i)))
        IN  scores[i].metrics.accessModifiers =
                IF members = 0 THEN One ELSE Q(withModifiers, members)

\* C14 witness: an analyzed file whose classes hold a static block beside
\* members with modifiers, and a ratio strictly between 0 and 1.
C14_Witness ==
    /\ Len(scores) = 1
    /\ \E m \in ClassMembers(TreeAt(1)) : TreeAt(1)[m].kind = "ClassStaticBlockDeclaration"
    /\ ModifiedMembers(TreeAt(1)) # {}
    /\ RLess(Zero, scores[1].metrics.accessModifiers)
    /\ RLess(scores[1].metrics.accessModifiers, One)

\* the declarations whose parent is a declaration list with flag fl
ListDeclarations(t, fl) ==
    {v \in 1..Len(t) :
        /\ t[v].kind = "VariableDeclaration"
        /\ t[v].parent > 0
        /\ t[t[v].parent].kind = "VariableDeclarationList"
        /\ fl \in t[t[v].parent].flags}

\* a file with declaration lists, all of them const
OnlyConst(t) ==
    /\ \E l \in 1..Len(t) : t[l].kind = "VariableDeclarationList"
    /\ \A l \in 1..Len(t) :
            t[l].kind = "VariableDeclarationList" => t[l].flags = {"Const"}

\* C15: calculatePreferConst returns consts / (consts + lets) over the
\* declarations of declaration lists and 1 when there is neither; a file with
\* const declarations only has preferConst = 1 and avoidVar = 1.
C15_PreferConstRatio ==
    \A i \in 1..Len(scores) :
        LET consts == Cardinality(ListDeclarations(TreeAt(i), "Const"))
            lets == Cardinality(ListDeclarations(TreeAt(i), "Let"))
        IN  /\ scores[i].metrics.preferConst =
                    IF consts + lets = 0 THEN One ELSE Q(consts, consts + lets)
            /\ OnlyConst(TreeAt(i)) =>
                    /\ scores[i].metrics.preferConst = One
                    /\ scores[i].metrics.avoidVar = One

\* C15 witness: an analyzed file with const declarations only, beside the
\* variable of a catch clause, which no declaration list holds.
C15_Witness ==
    /\ Len(scores) = 1
    /\ OnlyConst(TreeAt(1))
    /\ \E v \in 1..Len(TreeAt(1)) :
            /\ TreeAt(1)[v].kind = "VariableDeclaration"
            /\ TreeAt(1)[TreeAt(1)[v].parent].kind = "CatchClause"
    /\ scores[1].metrics.preferConst = One

\* C16: in every ScoreResult of the per-file analysis the suggestion list is
\* empty if and only if the score is exactly 100.
C16_NoSuggestionsIffPerfect ==
    \A i \in 1..Len(scores) :
        (scores[i].suggestions = <<>>) <=> (scores[i].score = Num(100))

\* C16 witness: the report of a file with statements, a score of 100 and the
\* message that stands for an empty suggestion list.
C16_Witness ==
    /\ pc = "done"
    /\ ~ json
    /\ Len(scores) = 1
    /\ TreeAt(1) # EmptyFile
    /\ scores[1].score = Num(100)
    /\ out[2][1].tail = <<"No suggestions, great job!">>

====
